---- MODULE Spec2Model ----
(***************************************************************************)
(* Model of BioSynth Designer (src/App.js): the ThreeDViewer component     *)
(* and, further down, the design list and the CRISPR analysis of App.      *)
(*                                                                         *)
(* The component owns a three.js scene, camera, renderer and orbit         *)
(* controls through refs.  Two effects drive it: the mount effect (scene   *)
(* setup, resize listener, render loop start, and the cleanup closure it   *)
(* returns) and the [type] effect (clear the scene, re-add the lights,     *)
(* build the helix or the organoid).  The render loop is the animate       *)
(* callback re-scheduling itself through requestAnimationFrame.            *)
(*                                                                         *)
(* Every object added to a scene gets a node id, every geometry and every  *)
(* material a resource id; disposeCount and nodeLog record each dispose()  *)
(* call so that resource accounting can be stated.                         *)
(***************************************************************************)
EXTENDS Integers, Sequences, FiniteSets, TLC

\* ---------------------------------------------------------------- bounds
MaxSwitches == 3        \* runs of the [type] effect in one behaviour
MaxFrames == 3          \* requestAnimationFrame ids handed out
MaxMounts == 2          \* runs of the mount effect
MaxCleanupCalls == 2    \* invocations of one cleanup closure
MaxElements == 2        \* length of dnaElements
MaxClock == 1           \* milliseconds Date.now() advances
MaxRequests == 2        \* fetch calls of analyzeCrispr

\* ------------------------------------------------------ program constants
numSegments == 30       \* helix segments
numCells == 50          \* organoid cells
radius == 1             \* helix radius
height == 4             \* helix height

\* Math.random(): the engine's generator, taken as a linear congruential one
\* with RandomModulus states; a draw advances the state x and returns it as
\* the fraction x / RandomModulus of 1.  The program neither seeds nor owns
\* the generator: the states it may be in when a build starts are Seeds.
RandomModulus == 16
Seeds == {0, 7}
NextRandom(x) == (5 * x + 3) % RandomModulus

Types == {"dna", "organoid", "other"}   \* values of the type prop
Widths == {0, 800}                      \* clientWidth values
Heights == {600}                        \* clientHeight values

\* The wider value sets of the resize study (ResizeSpec below).
ResizeWidths == {0, 400, 600, 800}
ResizeHeights == {0, 300, 600}
ResizeTypes == {"other"}

VARIABLES
    surfaceHandle,        \* mountRef.current is an element (TRUE) or null
    phase,                \* "initial" | "mounted" | "unmounted"
    pendingEffect,        \* the [type] effect of the current commit has yet to run
    hasCleanup,           \* the latest mount effect returned a cleanup closure
    mountCount,           \* runs of the mount effect
    cleanupCalls,         \* invocations of the latest cleanup closure
    cleanupLog,           \* statements executed by the latest cleanup, in order
    error,                \* exception the latest mount or its cleanup threw, "none" if none
    sceneRef,             \* "null" | "scene"
    children,             \* sceneRef.current.children
    builtType,            \* type the [type] effect last ran with, "unbuilt" before
    switchCount,          \* runs of the [type] effect
    nodeLog,              \* per node id: mesh flag, creating switch, disposal passes,
                          \* resources released when removed from the scene (-1: never removed)
    disposeCount,         \* per resource id: dispose() calls received
    pending,              \* requestAnimationFrame callbacks scheduled, by id
    animationFrameIdRef,  \* animationFrameIdRef.current, 0 for null
    nextFrameId,          \* next id requestAnimationFrame returns
    firstFrameId,         \* id requested by the animate() call of the latest mount
    renderCalls,          \* calls of renderer.render
    lastRender,           \* what the latest renderer.render call drew
    clientW, clientH,     \* currentMount.clientWidth / clientHeight
    cameraAspect,         \* cameraRef.current.aspect
    projectionAspect,     \* aspect the projection matrix was last computed from
    rendererSize,         \* size given to renderer.setSize
    rendererDisposed,     \* renderer.dispose() calls
    controlsDisposed,     \* controls.dispose() calls
    canvasAttached,       \* renderer.domElement is a child of currentMount
    resizeListener,       \* onWindowResize is registered on window
    dnaElements,          \* App state dnaElements: list of {id, type, name}
    now,                  \* the value Date.now() returns, in milliseconds
    crisprInputSequence,  \* App state crisprInputSequence, a list of characters
    crisprResults,        \* App state crisprResults
    isLoadingCrispr,      \* App state isLoadingCrispr
    request,              \* await the analyzeCrispr call in flight is suspended at
    responseStatus,       \* HTTP status of the response it received, 0 if none
    requestsSent          \* fetch calls made

lifecycleVars == <<surfaceHandle, phase, pendingEffect, hasCleanup, mountCount,
                   cleanupCalls, cleanupLog, error>>
sceneVars == <<sceneRef, children, builtType, switchCount, nodeLog, disposeCount>>
loopVars == <<pending, animationFrameIdRef, nextFrameId, firstFrameId,
              renderCalls, lastRender>>
viewVars == <<clientW, clientH, cameraAspect, projectionAspect, rendererSize,
              rendererDisposed, controlsDisposed, canvasAttached, resizeListener>>
viewerVars == <<lifecycleVars, sceneVars, loopVars, viewVars>>
designVars == <<dnaElements, now>>
crisprVars == <<crisprInputSequence, crisprResults, isLoadingCrispr, request,
                responseStatus, requestsSent>>
appVars == <<designVars, crisprVars>>
vars == <<viewerVars, appVars>>

\* ------------------------------------------------------------ arithmetic
RECURSIVE GCD(_, _)
GCD(a, b) == IF b = 0 THEN a ELSE GCD(b, a % b)

\* Faulty variant of Divide: the operands exchanged (h / w).
DivideInverted(w, h) ==
    IF w = 0
    THEN IF h = 0 THEN [kind |-> "NaN", n |-> 0, d |-> 0]
                  ELSE [kind |-> "Infinity", n |-> 1, d |-> 0]
    ELSE [kind |-> "ratio", n |-> h \div GCD(w, h), d |-> w \div GCD(w, h)]

\* JavaScript w / h on non-negative integers: 0/0 is NaN, w/0 is Infinity,
\* otherwise the rational w/h (kept in lowest terms).
Divide(w, h) ==
    IF h = 0
    THEN IF w = 0 THEN [kind |-> "NaN", n |-> 0, d |-> 0]
                  ELSE [kind |-> "Infinity", n |-> 1, d |-> 0]
    ELSE [kind |-> "ratio", n |-> w \div GCD(w, h), d |-> h \div GCD(w, h)]

NoAspect == [kind |-> "null", n |-> 0, d |-> 0]
NoSize == [w |-> -1, h |-> -1]
NoRender == [nodes |-> 0, lights |-> 0, disposedMeshes |-> 0, contextReleased |-> FALSE]

\* ------------------------------------------------------- scene objects
Light(id, kind, epoch) ==
    [id |-> id, kind |-> kind, role |-> "light", geometry |-> 0, material |-> 0,
     epoch |-> epoch]

\* Faulty variant of Mesh: the helix nodes are turned about the axis by an
\* angle that grows with every build.
MeshDrifting(id, role, g, m, epoch, position) ==
    [id |-> id, kind |-> "Mesh", role |-> role, geometry |-> g, material |-> m,
     epoch |-> epoch,
     position |-> IF role \in {"backbone", "basePair"}
                  THEN [position EXCEPT !.ang = @ + epoch]
                  ELSE position]

Mesh(id, role, g, m, epoch, position) ==
    [id |-> id, kind |-> "Mesh", role |-> role, geometry |-> g, material |-> m,
     epoch |-> epoch, position |-> position]

\* Faulty variant of Cylindrical: height / 2 is not subtracted, the helix
\* starts at z = 0.
CylindricalUncentred(rho, ang, z) ==
    [rho |-> rho, ang |-> ang, z |-> z + (height * numSegments) \div 2]

\* Helix positions in cylindrical form: distance rho from the z axis, angle
\* ang in units of pi / numSegments, z in units of 1 / numSegments (so that
\* segmentHeight = height / numSegments is the integer height).
\* position.set(rho cos(ang), rho sin(ang), z).
Cylindrical(rho, ang, z) == [rho |-> rho, ang |-> ang, z |-> z]

\* Organoid positions in the spherical form the code draws them in: r in
\* units of 0.8 / RandomModulus, theta in units of pi / RandomModulus, phi in
\* units of 2 pi / RandomModulus.
\* position.set(r sin(theta) cos(phi), r sin(theta) sin(phi), r cos(theta)),
\* a point at distance r from the origin.
Spherical(r, theta, phi) == [r |-> r, theta |-> theta, phi |-> phi]

\* scene.add(object) on a build state b = [children, nextNode, nextRes, i, rng]:
\* the children so far, the next free node and resource ids, a loop counter,
\* the state of the Math.random generator.
SceneAdd(b, obj) ==
    [b EXCEPT !.children = Append(@, obj), !.nextNode = @ + 1]

\* Faulty variant of AddLights: the directional light is left out.
AddLightsAmbientOnly(b, epoch) ==
    SceneAdd(b, Light(b.nextNode, "AmbientLight", epoch))

\* The ambient and the directional light, added in this order.
AddLights(b, epoch) ==
    LET b1 == SceneAdd(b, Light(b.nextNode, "AmbientLight", epoch))
    IN  SceneAdd(b1, Light(b1.nextNode, "DirectionalLight", epoch))

\* Faulty variant of HelixStep: the base pair is added at the last step too
\* (the test i < numSegments written as i <= numSegments).
HelixStepAlwaysBasePair(b, material, baseMaterial, epoch) ==
    LET angle1 == 8 * b.i
        z == b.i * height - (height * numSegments) \div 2
        b1 == [b EXCEPT !.nextRes = @ + 2]
        b2 == SceneAdd(b1, Mesh(b1.nextNode, "backbone", b.nextRes, material, epoch,
                                Cylindrical(radius, angle1, z)))
        b3 == SceneAdd(b2, Mesh(b2.nextNode, "backbone", b.nextRes, material, epoch,
                                Cylindrical(radius, angle1 + numSegments, z)))
    IN  SceneAdd(b3, Mesh(b3.nextNode, "basePair", b.nextRes + 1, baseMaterial, epoch,
                          Cylindrical(0, 0, z + height \div 2)))

\* The body of the helix loop for step b.i: a fresh cylinderGeometry shared by
\* cylinder1 and cylinder2, and for i < numSegments a base pair with its own
\* geometry.  material and baseMaterial are shared by all steps.
HelixStep(b, material, baseMaterial, epoch) ==
    LET angle1 == 8 * b.i
        z == b.i * height - (height * numSegments) \div 2
        cylinderGeometry == b.nextRes
        b1 == [b EXCEPT !.nextRes = @ + 1]
        b2 == SceneAdd(b1, Mesh(b1.nextNode, "backbone", cylinderGeometry, material, epoch,
                                Cylindrical(radius, angle1, z)))
        b3 == SceneAdd(b2, Mesh(b2.nextNode, "backbone", cylinderGeometry, material, epoch,
                                Cylindrical(radius, angle1 + numSegments, z)))
    IN  IF b.i < numSegments
        THEN LET basePairGeometry == b3.nextRes
                 b4 == [b3 EXCEPT !.nextRes = @ + 1]
             IN  SceneAdd(b4, Mesh(b4.nextNode, "basePair", basePairGeometry,
                                   baseMaterial, epoch,
                                   Cylindrical(0, 0, z + height \div 2)))
        ELSE b3

\* Faulty variant of HelixLoop: the loop is cut short half-way, as if a frame
\* were let in between two steps of the build.
RECURSIVE HelixLoopInterrupted(_, _, _, _)
HelixLoopInterrupted(b, material, baseMaterial, epoch) ==
    IF b.i <= numSegments \div 2
    THEN HelixLoopInterrupted([HelixStep(b, material, baseMaterial, epoch)
                                 EXCEPT !.i = @ + 1],
                              material, baseMaterial, epoch)
    ELSE b

\* for (let i = 0; i <= numSegments; i++) { ... }, b.i being the loop counter
RECURSIVE HelixLoop(_, _, _, _)
HelixLoop(b, material, baseMaterial, epoch) ==
    IF b.i <= numSegments
    THEN HelixLoop([HelixStep(b, material, baseMaterial, epoch) EXCEPT !.i = @ + 1],
                   material, baseMaterial, epoch)
    ELSE b

BuildHelix(b, epoch) ==
    LET material == b.nextRes
        baseMaterial == b.nextRes + 1
        b1 == [b EXCEPT !.nextRes = @ + 2, !.i = 0]
        b2 == HelixLoop(b1, material, baseMaterial, epoch)
        coreGeometry == b2.nextRes
        coreMaterial == b2.nextRes + 1
        b3 == [b2 EXCEPT !.nextRes = @ + 2]
    IN  SceneAdd(b3, Mesh(b3.nextNode, "core", coreGeometry, coreMaterial, epoch,
                          Cylindrical(0, 0, -((height * numSegments) \div 2))))

\* The body of the cell loop: three Math.random() draws (phi, theta, r, in
\* this order) and a cell mesh at the position they give.
CellStep(b, cellsGeometry, cellMaterial, epoch) ==
    LET phi == NextRandom(b.rng)
        theta == NextRandom(phi)
        r == NextRandom(theta)
    IN  SceneAdd([b EXCEPT !.rng = r],
                 Mesh(b.nextNode, "cell", cellsGeometry, cellMaterial, epoch,
                      Spherical(r, theta, phi)))

\* Faulty variant of CellLoop: the bound is inclusive (i <= 50).
RECURSIVE CellLoopInclusive(_, _, _, _)
CellLoopInclusive(b, cellsGeometry, cellMaterial, epoch) ==
    IF b.i <= numCells
    THEN CellLoopInclusive([CellStep(b, cellsGeometry, cellMaterial, epoch)
                              EXCEPT !.i = @ + 1],
                           cellsGeometry, cellMaterial, epoch)
    ELSE b

\* for (let i = 0; i < 50; i++) { ... }: every cell mesh shares cellsGeometry
\* and cellMaterial.
RECURSIVE CellLoop(_, _, _, _)
CellLoop(b, cellsGeometry, cellMaterial, epoch) ==
    IF b.i < numCells
    THEN CellLoop([CellStep(b, cellsGeometry, cellMaterial, epoch) EXCEPT !.i = @ + 1],
                  cellsGeometry, cellMaterial, epoch)
    ELSE b

BuildOrganoid(b, epoch) ==
    LET coreGeometry == b.nextRes
        coreMaterial == b.nextRes + 1
        b1 == SceneAdd([b EXCEPT !.nextRes = @ + 2],
                       Mesh(b.nextNode, "core", coreGeometry, coreMaterial, epoch,
                            Spherical(0, 0, 0)))
        outerLayerGeometry == b1.nextRes
        outerLayerMaterial == b1.nextRes + 1
        b2 == SceneAdd([b1 EXCEPT !.nextRes = @ + 2],
                       Mesh(b1.nextNode, "outerLayer", outerLayerGeometry,
                            outerLayerMaterial, epoch, Spherical(0, 0, 0)))
        cellsGeometry == b2.nextRes
        cellMaterial == b2.nextRes + 1
        b3 == [b2 EXCEPT !.nextRes = @ + 2, !.i = 0]
    IN  CellLoop(b3, cellsGeometry, cellMaterial, epoch)

\* Faulty variant of Build: a type that is not 'organoid' gets the helix.
BuildHelixByDefault(type, b, epoch) ==
    IF type = "organoid" THEN BuildOrganoid(b, epoch) ELSE BuildHelix(b, epoch)

\* if (type === 'dna') ... else if (type === 'organoid') ... (nothing otherwise)
Build(type, b, epoch) ==
    IF type = "dna" THEN BuildHelix(b, epoch)
    ELSE IF type = "organoid" THEN BuildOrganoid(b, epoch)
    ELSE b

\* ------------------------------------------------------------ disposal
\* Faulty variant of DisposeObject: the type test never succeeds, nothing is
\* disposed.
DisposeObjectNever(object, d) == d

\* Faulty variant of DisposeObject: the geometry is disposed, the material is
\* forgotten.
DisposeObjectGeometryOnly(object, d) ==
    IF object.kind = "Mesh"
    THEN [dc |-> [d.dc EXCEPT ![object.geometry] = @ + 1],
          nl |-> [d.nl EXCEPT ![object.id].disposals = @ + 1]]
    ELSE d

\* The isMesh branch shared by the clearing loop and the cleanup traversal:
\* object.geometry.dispose(), then object.material.dispose().  (The builders
\* create single materials only, so the Array.isArray branch never runs.)
\* d = [dc, nl]: dispose() calls per resource, disposal passes per node.
DisposeObject(object, d) ==
    IF object.kind = "Mesh"
    THEN LET dc1 == [d.dc EXCEPT ![object.geometry] = @ + 1]
             dc2 == [dc1 EXCEPT ![object.material] = @ + 1]
         IN  [dc |-> dc2,
              nl |-> [d.nl EXCEPT ![object.id].disposals = @ + 1]]
    ELSE d

\* Faulty variant of ClearScene: for (i = 0; i < children.length; i++)
\* { dispose and remove children[i] }, which skips the object that moves into
\* the freed position.
RECURSIVE SkipLoop(_)
SkipLoop(s) ==
    IF s.k < Len(s.children)
    THEN SkipLoop([children |-> SubSeq(s.children, 1, s.k)
                                   \o SubSeq(s.children, s.k + 2, Len(s.children)),
                   d |-> DisposeObject(s.children[s.k + 1], s.d),
                   k |-> s.k + 1])
    ELSE s

ClearSceneSkipping(s) ==
    LET r == SkipLoop([children |-> s.children, d |-> s.d, k |-> 0])
    IN  [children |-> r.children, d |-> r.d]

\* Faulty variant of ClearScene: the scene is not cleared at all.
ClearSceneNoOp(s) == s

\* How many of the object's own resources (geometry, material) have received
\* dispose() according to the counts dc; a light owns none.
Released(object, dc) ==
    IF object.kind = "Mesh"
    THEN (IF dc[object.geometry] > 0 THEN 1 ELSE 0)
            + (IF dc[object.material] > 0 THEN 1 ELSE 0)
    ELSE 0

\* scene.remove(object) for object = children[0] on the loop state s: the
\* object leaves the children; nodeLog keeps how many of its resources had
\* been released at that moment.
SceneRemove(object, s) ==
    [children |-> Tail(s.children),
     d |-> [dc |-> s.d.dc,
            nl |-> [s.d.nl EXCEPT ![object.id].removal = Released(object, s.d.dc)]]]

\* Faulty variant of ClearScene: each object is removed from the scene first
\* and disposed afterwards.
RECURSIVE ClearSceneRemoveFirst(_)
ClearSceneRemoveFirst(s) ==
    IF Len(s.children) > 0
    THEN LET object == Head(s.children)
             removed == SceneRemove(object, s)
         IN  ClearSceneRemoveFirst([children |-> removed.children,
                                    d |-> DisposeObject(object, removed.d)])
    ELSE s

\* while (children.length > 0) { object = children[0]; dispose; remove(object) }
\* on the loop state s = [children, d]; returns the state the loop ends in.
RECURSIVE ClearScene(_)
ClearScene(s) ==
    IF Len(s.children) > 0
    THEN LET object == Head(s.children)
         IN  ClearScene(SceneRemove(object, [children |-> s.children,
                                             d |-> DisposeObject(object, s.d)]))
    ELSE s

\* Faulty variant of TraverseDispose: the cleanup leaves the scene content
\* undisposed.
TraverseDisposeNothing(s) == s

\* scene.traverse(object => if (object.isMesh) dispose ...) on the loop state
\* s = [children, k, d]: visits the children from position k on, removes none.
RECURSIVE TraverseDispose(_)
TraverseDispose(s) ==
    IF s.k <= Len(s.children)
    THEN TraverseDispose([s EXCEPT !.k = @ + 1,
                                   !.d = DisposeObject(s.children[s.k], s.d)])
    ELSE s

\* nodeLog extended with one entry per object of ch that a build has just
\* created: ids are handed out in the order of scene.add, so the new objects
\* are the last ones of ch, the object with id x at position
\* Len(ch) - (ch[Len(ch)].id - x).
RECURSIVE ExtendNodeLog(_, _)
ExtendNodeLog(nl, ch) ==
    IF Len(ch) > 0 /\ Len(nl) < ch[Len(ch)].id
    THEN LET o == ch[Len(ch) - (ch[Len(ch)].id - (Len(nl) + 1))]
         IN  ExtendNodeLog(Append(nl, [mesh |-> o.kind = "Mesh", epoch |-> o.epoch,
                                       disposals |-> 0, removal |-> -1]), ch)
    ELSE nl

\* disposeCount extended with a zero for every resource id below nextRes.
RECURSIVE ExtendCounts(_, _)
ExtendCounts(dc, nextRes) ==
    IF Len(dc) < nextRes - 1 THEN ExtendCounts(Append(dc, 0), nextRes) ELSE dc

\* ---------------------------------------------------------------- Init
Init ==
    /\ surfaceHandle \in BOOLEAN
    /\ phase = "initial"
    /\ pendingEffect = FALSE
    /\ hasCleanup = FALSE
    /\ mountCount = 0
    /\ cleanupCalls = 0
    /\ cleanupLog = <<>>
    /\ error = "none"
    /\ sceneRef = "null"
    /\ children = <<>>
    /\ builtType = "unbuilt"
    /\ switchCount = 0
    /\ nodeLog = <<>>
    /\ disposeCount = <<>>
    /\ pending = {}
    /\ animationFrameIdRef = 0
    /\ nextFrameId = 1
    /\ firstFrameId = 0
    /\ renderCalls = 0
    /\ lastRender = NoRender
    /\ clientW \in {w \in Widths : w > 0}     \* laid out (w-full) when first mounted;
    /\ clientH \in Heights                    \* other sizes arrive by resize
    /\ cameraAspect = NoAspect
    /\ projectionAspect = NoAspect
    /\ rendererSize = NoSize
    /\ rendererDisposed = 0
    /\ controlsDisposed = 0
    /\ canvasAttached = FALSE
    /\ resizeListener = FALSE
    /\ dnaElements = <<>>
    /\ now = 0
    /\ crisprInputSequence = <<>>
    /\ crisprResults = ""
    /\ isLoadingCrispr = FALSE
    /\ request = "none"
    /\ responseStatus = 0
    /\ requestsSent = 0

\* ------------------------------------------------------------ render loop
\* What renderer.render(scene, camera) draws: the scene's children, how many
\* of them are lights, how many are meshes whose geometry or material has
\* received dispose(), and whether the renderer itself has been disposed.
RenderInfo(ch, dc, rd) ==
    [nodes |-> Len(ch),
     lights |-> Cardinality({j \in 1..Len(ch) : ch[j].kind # "Mesh"}),
     disposedMeshes |-> Cardinality({j \in 1..Len(ch) :
                            /\ ch[j].kind = "Mesh"
                            /\ \/ dc[ch[j].geometry] > 0
                               \/ dc[ch[j].material] > 0}),
     contextReleased |-> rd > 0]

\* Faulty variant of Animate: the id requestAnimationFrame returns is not stored.
AnimateNoStore(sr, ch, dc, rd, pend) ==
    /\ IF sr = "scene"
       THEN /\ renderCalls' = renderCalls + 1
            /\ lastRender' = RenderInfo(ch, dc, rd)
       ELSE UNCHANGED <<renderCalls, lastRender>>
    /\ pending' = pend \cup {nextFrameId}
    /\ animationFrameIdRef' = animationFrameIdRef
    /\ nextFrameId' = nextFrameId + 1

\* Faulty variant of Animate: the frame is rendered but no next frame is
\* requested.
AnimateWithoutRequest(sr, ch, dc, rd, pend) ==
    /\ IF sr = "scene"
       THEN /\ renderCalls' = renderCalls + 1
            /\ lastRender' = RenderInfo(ch, dc, rd)
       ELSE UNCHANGED <<renderCalls, lastRender>>
    /\ pending' = pend
    /\ UNCHANGED <<animationFrameIdRef, nextFrameId>>

\* animate(): render when the three refs are set (they are set together by
\* the mount effect and never reset), then request the next frame and store
\* its id.  sr, ch, dc are the ref and scene as animate finds them; pend is
\* the set of scheduled callbacks it adds its request to.
Animate(sr, ch, dc, rd, pend) ==
    /\ IF sr = "scene"
       THEN /\ renderCalls' = renderCalls + 1
            /\ lastRender' = RenderInfo(ch, dc, rd)
       ELSE UNCHANGED <<renderCalls, lastRender>>
    /\ pending' = pend \cup {nextFrameId}
    /\ animationFrameIdRef' = nextFrameId
    /\ nextFrameId' = nextFrameId + 1

\* The host's frame scheduler fires a scheduled callback.
Frame(id) ==
    /\ id \in pending
    /\ ~pendingEffect
    /\ nextFrameId <= MaxFrames
    /\ Animate(sceneRef, children, disposeCount, rendererDisposed, pending \ {id})
    /\ UNCHANGED <<firstFrameId, lifecycleVars, sceneVars, viewVars, appVars>>

\* ------------------------------------------------------------ mount effect
\* useEffect(() => {...}, [animate]): returns early when mountRef.current is
\* null; otherwise creates scene, camera, renderer, controls and lights,
\* registers onWindowResize, calls animate() and returns the cleanup closure.
\* The [type] effect of the same commit runs right after it (pendingEffect).
Mount ==
    /\ phase \in {"initial", "unmounted"}
    /\ mountCount < MaxMounts
    /\ switchCount < MaxSwitches
    /\ nextFrameId <= MaxFrames
    /\ phase' = "mounted"
    /\ pendingEffect' = TRUE
    /\ mountCount' = mountCount + 1
    /\ UNCHANGED <<surfaceHandle, switchCount, disposeCount, clientW, clientH, appVars>>
    /\ IF ~surfaceHandle
       THEN /\ hasCleanup' = FALSE
            /\ UNCHANGED <<cleanupCalls, cleanupLog, error, sceneRef, children,
                           builtType, nodeLog, loopVars, cameraAspect,
                           projectionAspect, rendererSize, rendererDisposed,
                           controlsDisposed, canvasAttached, resizeListener>>
       ELSE LET b == AddLights([children |-> <<>>, nextNode |-> Len(nodeLog) + 1,
                                nextRes |-> Len(disposeCount) + 1, i |-> 0, rng |-> 0],
                               switchCount)
            IN  /\ sceneRef' = "scene"
                /\ children' = b.children
                /\ nodeLog' = ExtendNodeLog(nodeLog, b.children)
                /\ builtType' = "unbuilt"
                /\ cameraAspect' = Divide(clientW, clientH)
                /\ projectionAspect' = Divide(clientW, clientH)
                /\ rendererSize' = [w |-> clientW, h |-> clientH]
                /\ rendererDisposed' = 0
                /\ controlsDisposed' = 0
                /\ canvasAttached' = TRUE
                /\ resizeListener' = TRUE
                /\ Animate("scene", b.children, disposeCount, 0, pending)
                /\ firstFrameId' = nextFrameId
                /\ hasCleanup' = TRUE
                /\ cleanupCalls' = 0
                /\ cleanupLog' = <<>>
                /\ error' = "none"

\* ------------------------------------------------------------ [type] effect
\* Faulty variant of SetStructureType: the effect also cancels the frame
\* request.
SetStructureTypeCancelling(type, seed) ==
    /\ phase = "mounted"
    /\ switchCount < MaxSwitches
    /\ pendingEffect' = FALSE
    /\ switchCount' = switchCount + 1
    /\ builtType' = type
    /\ IF sceneRef = "scene"
       THEN LET cleared == ClearScene([children |-> children,
                                       d |-> [dc |-> disposeCount, nl |-> nodeLog]])
                b0 == [children |-> cleared.children, nextNode |-> Len(nodeLog) + 1,
                       nextRes |-> Len(disposeCount) + 1, i |-> 0, rng |-> seed]
                b == Build(type, AddLights(b0, switchCount + 1), switchCount + 1)
            IN  /\ children' = b.children
                /\ nodeLog' = ExtendNodeLog(cleared.d.nl, b.children)
                /\ disposeCount' = ExtendCounts(cleared.d.dc, b.nextRes)
       ELSE UNCHANGED <<children, nodeLog, disposeCount>>
    /\ pending' = pending \ {animationFrameIdRef}
    /\ UNCHANGED <<surfaceHandle, phase, hasCleanup, mountCount, cleanupCalls,
                   cleanupLog, error, sceneRef, animationFrameIdRef, nextFrameId,
                   firstFrameId, renderCalls, lastRender, viewVars, appVars>>

\* useEffect(() => {...}, [type]): when sceneRef.current is set, clear the
\* scene (disposing every mesh), re-add the two lights, build for `type`.
\* seed is the state the Math.random generator happens to be in.
SetStructureType(type, seed) ==
    /\ phase = "mounted"
    /\ switchCount < MaxSwitches
    /\ pendingEffect' = FALSE
    /\ switchCount' = switchCount + 1
    /\ builtType' = type
    /\ IF sceneRef = "scene"
       THEN LET cleared == ClearScene([children |-> children,
                                       d |-> [dc |-> disposeCount, nl |-> nodeLog]])
                b0 == [children |-> cleared.children, nextNode |-> Len(nodeLog) + 1,
                       nextRes |-> Len(disposeCount) + 1, i |-> 0, rng |-> seed]
                b == Build(type, AddLights(b0, switchCount + 1), switchCount + 1)
            IN  /\ children' = b.children
                /\ nodeLog' = ExtendNodeLog(cleared.d.nl, b.children)
                /\ disposeCount' = ExtendCounts(cleared.d.dc, b.nextRes)
       ELSE UNCHANGED <<children, nodeLog, disposeCount>>
    /\ UNCHANGED <<surfaceHandle, phase, hasCleanup, mountCount, cleanupCalls,
                   cleanupLog, error, sceneRef, loopVars, viewVars, appVars>>

\* ------------------------------------------------------------ resize
\* Faulty variant of WindowResize: the handler also cancels the frame request.
WindowResizeCancelling(w, h) ==
    /\ phase # "initial"
    /\ ~pendingEffect
    /\ clientW' = w
    /\ clientH' = h
    /\ IF resizeListener
       THEN /\ cameraAspect' = Divide(w, h)
            /\ projectionAspect' = Divide(w, h)
            /\ rendererSize' = [w |-> w, h |-> h]
            /\ pending' = pending \ {animationFrameIdRef}
       ELSE UNCHANGED <<cameraAspect, projectionAspect, rendererSize, pending>>
    /\ UNCHANGED <<rendererDisposed, controlsDisposed, canvasAttached, resizeListener,
                   lifecycleVars, sceneVars, animationFrameIdRef, nextFrameId,
                   firstFrameId, renderCalls, lastRender, appVars>>

\* The window fires 'resize' while the mount element has size (w, h).  With
\* the listener registered, onWindowResize runs; its guard (currentMount &&
\* cameraRef.current && rendererRef.current) holds whenever it is registered.
\* Before the first commit there is no mount element to resize: the size it
\* is created with is the one Init draws.
WindowResize(w, h) ==
    /\ phase # "initial"
    /\ ~pendingEffect
    /\ clientW' = w
    /\ clientH' = h
    /\ IF resizeListener
       THEN /\ cameraAspect' = Divide(w, h)
            /\ projectionAspect' = Divide(w, h)
            /\ rendererSize' = [w |-> w, h |-> h]
       ELSE UNCHANGED <<cameraAspect, projectionAspect, rendererSize>>
    /\ UNCHANGED <<rendererDisposed, controlsDisposed, canvasAttached, resizeListener,
                   lifecycleVars, sceneVars, loopVars, appVars>>

\* ------------------------------------------------------------ cleanup
\* Faulty variant of CancelledId: the ref is not read, null is cancelled.
CancelledIdNull(ref, first) == 0

\* Faulty variant of CancelledId: the id of the first request of the mount.
CancelledIdFirst(ref, first) == first

\* The id handed to cancelAnimationFrame: animationFrameIdRef.current.
CancelledId(ref, first) == ref

\* Faulty variant of RunCleanup: removeEventListener is left out.
RunCleanupKeepingListener ==
    /\ cleanupCalls' = cleanupCalls + 1
    /\ pending' = pending \ {CancelledId(animationFrameIdRef, firstFrameId)}
    /\ resizeListener' = resizeListener
    /\ IF canvasAttached
       THEN LET d == TraverseDispose([children |-> children, k |-> 1,
                                          d |-> [dc |-> disposeCount, nl |-> nodeLog]]).d
            IN  /\ canvasAttached' = FALSE
                /\ rendererDisposed' = rendererDisposed + 1
                /\ controlsDisposed' = controlsDisposed + 1
                /\ disposeCount' = d.dc
                /\ nodeLog' = d.nl
                /\ cleanupLog' = <<"cancelAnimationFrame", "removeEventListener",
                                   "removeChild", "renderer.dispose",
                                   "controls.dispose", "scene.traverse">>
                /\ UNCHANGED error
       ELSE /\ error' = "NotFoundError"
            /\ cleanupLog' = <<"cancelAnimationFrame", "removeEventListener",
                               "removeChild">>
            /\ UNCHANGED <<canvasAttached, rendererDisposed, controlsDisposed,
                           disposeCount, nodeLog>>
    /\ UNCHANGED <<surfaceHandle, pendingEffect, hasCleanup, mountCount, sceneRef,
                   children, builtType, switchCount, animationFrameIdRef, nextFrameId,
                   firstFrameId, renderCalls, lastRender, clientW, clientH,
                   cameraAspect, projectionAspect, rendererSize>>

\* The closure returned by the mount effect.  removeChild throws NotFoundError
\* when renderer.domElement is not a child of currentMount (both operands of
\* the guard `currentMount && renderer.domElement` stay truthy), which ends
\* the closure before renderer.dispose().
RunCleanup ==
    /\ cleanupCalls' = cleanupCalls + 1
    /\ pending' = pending \ {CancelledId(animationFrameIdRef, firstFrameId)}
    /\ resizeListener' = FALSE
    /\ IF canvasAttached
       THEN LET d == TraverseDispose([children |-> children, k |-> 1,
                                          d |-> [dc |-> disposeCount, nl |-> nodeLog]]).d
            IN  /\ canvasAttached' = FALSE
                /\ rendererDisposed' = rendererDisposed + 1
                /\ controlsDisposed' = controlsDisposed + 1
                /\ disposeCount' = d.dc
                /\ nodeLog' = d.nl
                /\ cleanupLog' = <<"cancelAnimationFrame", "removeEventListener",
                                   "removeChild", "renderer.dispose",
                                   "controls.dispose", "scene.traverse">>
                /\ UNCHANGED error
       ELSE /\ error' = "NotFoundError"
            /\ cleanupLog' = <<"cancelAnimationFrame", "removeEventListener",
                               "removeChild">>
            /\ UNCHANGED <<canvasAttached, rendererDisposed, controlsDisposed,
                           disposeCount, nodeLog>>
    /\ UNCHANGED <<surfaceHandle, pendingEffect, hasCleanup, mountCount, sceneRef,
                   children, builtType, switchCount, animationFrameIdRef, nextFrameId,
                   firstFrameId, renderCalls, lastRender, clientW, clientH,
                   cameraAspect, projectionAspect, rendererSize>>

\* React unmounts the component and runs the cleanup the mount effect
\* returned, if it returned one.
Unmount ==
    /\ phase = "mounted"
    /\ ~pendingEffect
    /\ phase' = "unmounted"
    /\ UNCHANGED appVars
    /\ IF hasCleanup
       THEN RunCleanup
       ELSE UNCHANGED <<surfaceHandle, pendingEffect, hasCleanup, mountCount,
                        cleanupCalls, cleanupLog, error, sceneVars, loopVars, viewVars>>

\* The cleanup closure invoked again after it has run.
CleanupAgain ==
    /\ phase = "unmounted"
    /\ hasCleanup
    /\ cleanupCalls < MaxCleanupCalls
    /\ UNCHANGED <<phase, appVars>>
    /\ RunCleanup

Next ==
    \/ Mount
    \/ \E type \in Types, seed \in Seeds : SetStructureType(type, seed)
    \/ \E id \in pending : Frame(id)
    \/ \E w \in Widths, h \in Heights : WindowResize(w, h)
    \/ Unmount
    \/ CleanupAgain

Spec == Init /\ [][Next]_vars

\* The viewer under the scheduling its host guarantees: the browser fires
\* every callback requested through requestAnimationFrame and not cancelled
\* (weak fairness on Frame).
LiveSpec ==
    /\ Init
    /\ [][Next]_vars
    /\ WF_vars(\E id \in pending : Frame(id))

\* The resize study: the same viewer under a wider range of element sizes,
\* with a type prop that builds no content (onWindowResize never reads the
\* scene), which keeps the wider range tractable.
ResizeNext ==
    \/ Mount
    \/ \E type \in ResizeTypes, seed \in Seeds : SetStructureType(type, seed)
    \/ \E id \in pending : Frame(id)
    \/ \E w \in ResizeWidths, h \in ResizeHeights : WindowResize(w, h)
    \/ Unmount
    \/ CleanupAgain

ResizeSpec == Init /\ [][ResizeNext]_vars

\* ================================================================ App component
\* The App component holds the design list and the CRISPR analysis panel.
\* React renders after every event handler and after every resumption of an
\* async function, so a handler always reads the state its predecessor left.

\* ---------------------------------------------------------------- design list
ElementTypes == {"Gene", "Promoter"}    \* two of the six "add" buttons

\* addDnaElement(type): append { id: Date.now(), type, name }.
AddDnaElement(type) ==
    /\ Len(dnaElements) < MaxElements
    /\ dnaElements' = Append(dnaElements,
                             [id |-> now, type |-> type,
                              name |-> type \o " " \o ToString(Len(dnaElements) + 1)])
    /\ UNCHANGED <<now, crisprVars, viewerVars>>

\* removeDnaElement(id): keep the elements whose id differs.  The call comes
\* from the remove button of a listed element, so id is a listed id.
RemoveDnaElement(id) ==
    /\ \E i \in 1..Len(dnaElements) : dnaElements[i].id = id
    /\ dnaElements' = SelectSeq(dnaElements, LAMBDA el : el.id # id)
    /\ UNCHANGED <<now, crisprVars, viewerVars>>

\* A millisecond passes.
Tick ==
    /\ now < MaxClock
    /\ now' = now + 1
    /\ UNCHANGED <<dnaElements, crisprVars, viewerVars>>

\* ---------------------------------------------------------------- analyzeCrispr
\* Strings the user may type, as lists of characters.
Whitespace == {" ", "\t", "\n"}
Inputs == {<<>>, <<" ", "\t">>, <<" ", "G", "G">>}

RECURSIVE TrimStart(_)
TrimStart(s) == IF s # <<>> /\ Head(s) \in Whitespace THEN TrimStart(Tail(s)) ELSE s

RECURSIVE TrimEnd(_)
TrimEnd(s) ==
    IF s # <<>> /\ s[Len(s)] \in Whitespace THEN TrimEnd(SubSeq(s, 1, Len(s) - 1)) ELSE s

\* Faulty variant of Trim: the input is taken as typed.
TrimNothing(s) == s

\* String.prototype.trim
Trim(s) == TrimEnd(TrimStart(s))

PleaseEnter == "Please enter a DNA sequence to analyze."
Analyzing == "Analyzing sequence..."
NoValidResponse == "No valid response from AI. Please try again."
Undefined == "undefined"
ErrorText(message) == "Error: " \o message \o ". Could not analyze sequence."

\* An optional value: Absent, or Some(v).
Absent == <<>>
Some(v) == <<v>>

\* What response.json() may deliver: a rejection (the body is not JSON), the
\* JSON value null, or an object of which the handler reads candidates (a list
\* of {content: {parts: [{text}]}}) and error ({message}).
NotJson == [parses |-> FALSE, isNull |-> FALSE, candidates |-> Absent, error |-> Absent]
JsonNull == [parses |-> TRUE, isNull |-> TRUE, candidates |-> Absent, error |-> Absent]
JsonObject(candidates, err) ==
    [parses |-> TRUE, isNull |-> FALSE, candidates |-> candidates, error |-> err]
Candidate(parts) == [content |-> Some([parts |-> Some(parts)])]
Bodies ==
    { NotJson, JsonNull,
      JsonObject(Absent, Absent),
      JsonObject(Some(<<>>), Absent),
      JsonObject(Some(<<[content |-> Absent]>>), Absent),
      JsonObject(Some(<<[content |-> Some([parts |-> Absent])]>>), Absent),
      JsonObject(Some(<<Candidate(<<>>)>>), Absent),
      JsonObject(Some(<<Candidate(<<[text |-> Absent]>>)>>), Absent),
      JsonObject(Some(<<Candidate(<<[text |-> Some("PAM: AGG; gRNA: 20 nt")]>>)>>), Absent),
      JsonObject(Absent, Some([message |-> Some("Quota exceeded")])),
      JsonObject(Absent, Some([message |-> Absent])) }

Statuses == {200, 429}                  \* response.status
Ok(status) == status \in 200..299       \* response.ok

Return(results) == [thrown |-> FALSE, value |-> results]
Throw(message) == [thrown |-> TRUE, value |-> message]

\* The try block from the point where response.json() settles with body:
\* what it passes to setCrisprResults, or the message of what it throws.
TryBlock(status, body) ==
    IF ~body.parses THEN Throw("Unexpected token")
    ELSE IF ~Ok(status)
    THEN IF body.isNull \/ body.error = Absent
         THEN Throw("Cannot read properties")
         ELSE Throw("API error: " \o ToString(status) \o " - "
                        \o (IF body.error[1].message = Absent THEN Undefined
                            ELSE body.error[1].message[1]))
    ELSE IF body.isNull THEN Throw("Cannot read properties")
    ELSE IF /\ body.candidates # Absent
            /\ Len(body.candidates[1]) > 0
            /\ body.candidates[1][1].content # Absent
            /\ body.candidates[1][1].content[1].parts # Absent
            /\ Len(body.candidates[1][1].content[1].parts[1]) > 0
         THEN LET text == body.candidates[1][1].content[1].parts[1][1].text
              IN  Return(IF text = Absent THEN Undefined ELSE text[1])
         ELSE Return(NoValidResponse)

\* Faulty variant of CatchFinally: no catch and no finally, a throw leaves
\* the state as it was.
CatchFinallyMissing(outcome, results, loading) ==
    IF outcome.thrown
    THEN [crisprResults |-> results, isLoadingCrispr |-> loading]
    ELSE [crisprResults |-> outcome.value, isLoadingCrispr |-> loading]

\* The state the call leaves: catch shows the message of a throw, finally
\* resets the loading flag.
CatchFinally(outcome, results, loading) ==
    [crisprResults |-> IF outcome.thrown THEN ErrorText(outcome.value) ELSE outcome.value,
     isLoadingCrispr |-> FALSE]

\* onChange of the sequence field.
SetCrisprInputSequence(value) ==
    /\ crisprInputSequence' = value
    /\ UNCHANGED <<crisprResults, isLoadingCrispr, request, responseStatus,
                   requestsSent, designVars, viewerVars>>

\* A click on "Analyze Sequence" (disabled while isLoadingCrispr): the part of
\* analyzeCrispr up to its first await.
AnalyzeCrispr ==
    /\ ~isLoadingCrispr
    /\ IF Trim(crisprInputSequence) = <<>>
       THEN /\ crisprResults' = PleaseEnter
            /\ UNCHANGED <<isLoadingCrispr, request, requestsSent>>
       ELSE /\ requestsSent < MaxRequests
            /\ isLoadingCrispr' = TRUE
            /\ crisprResults' = Analyzing
            /\ request' = "fetch"
            /\ requestsSent' = requestsSent + 1
    /\ UNCHANGED <<crisprInputSequence, responseStatus, designVars, viewerVars>>

\* The fetch promise rejects (network error): catch, finally.
FetchRejects ==
    /\ request = "fetch"
    /\ LET after == CatchFinally(Throw("Failed to fetch"), crisprResults, isLoadingCrispr)
       IN  /\ crisprResults' = after.crisprResults
           /\ isLoadingCrispr' = after.isLoadingCrispr
    /\ request' = "none"
    /\ UNCHANGED <<crisprInputSequence, responseStatus, requestsSent, designVars,
                   viewerVars>>

\* The fetch promise resolves with a response: the call goes on to await
\* response.json(), on either side of the response.ok test.
FetchResolves(status) ==
    /\ request = "fetch"
    /\ responseStatus' = status
    /\ request' = "json"
    /\ UNCHANGED <<crisprInputSequence, crisprResults, isLoadingCrispr, requestsSent,
                   designVars, viewerVars>>

\* response.json() settles: the rest of the try block, catch, finally.
JsonSettles(body) ==
    /\ request = "json"
    /\ LET after == CatchFinally(TryBlock(responseStatus, body), crisprResults,
                                 isLoadingCrispr)
       IN  /\ crisprResults' = after.crisprResults
           /\ isLoadingCrispr' = after.isLoadingCrispr
    /\ request' = "none"
    /\ responseStatus' = 0
    /\ UNCHANGED <<crisprInputSequence, requestsSent, designVars, viewerVars>>

AppNext ==
    \/ \E type \in ElementTypes : AddDnaElement(type)
    \/ \E id \in 0..MaxClock : RemoveDnaElement(id)
    \/ Tick
    \/ \E value \in Inputs : SetCrisprInputSequence(value)
    \/ AnalyzeCrispr
    \/ FetchRejects
    \/ \E status \in Statuses : FetchResolves(status)
    \/ \E body \in Bodies : JsonSettles(body)

AppSpec == Init /\ [][AppNext]_vars

\* The App under the scheduling its host guarantees: a promise the handler
\* awaits (fetch, response.json()) is settled, by a result or by an error.
AppLiveSpec ==
    /\ Init
    /\ [][AppNext]_vars
    /\ WF_vars(FetchRejects \/ \E status \in Statuses : FetchResolves(status))
    /\ WF_vars(\E body \in Bodies : JsonSettles(body))

\* ================================================================ properties
\* Resource ids referenced by the meshes of a children list.
Referenced(ch) ==
    {ch[j].geometry : j \in {k \in 1..Len(ch) : ch[k].kind = "Mesh"}}
        \cup {ch[j].material : j \in {k \in 1..Len(ch) : ch[k].kind = "Mesh"}}

\* The children a build for `type` puts into an empty scene.
FreshScene(type, seed) ==
    Build(type, AddLights([children |-> <<>>, nextNode |-> 1, nextRes |-> 1, i |-> 0,
                           rng |-> seed], 0),
          0).children

FreshDna == FreshScene("dna", 0)
FreshOrganoid == FreshScene("organoid", 0)
FreshOther == FreshScene("other", 0)

\* Children of one three.js class (AmbientLight, DirectionalLight, Mesh).
CountKind(ch, kind) == Cardinality({j \in 1..Len(ch) : ch[j].kind = kind})

\* Content nodes (meshes) of a children list, all of them or those of a role.
ContentNodes(ch) == {j \in 1..Len(ch) : ch[j].kind = "Mesh"}
CountRole(ch, role) == Cardinality({j \in ContentNodes(ch) : ch[j].role = role})

\* Mesh nodes the switch numbered e created, as recorded in nodeLog.
MeshesOfEpoch(e) ==
    Cardinality({n \in 1..Len(nodeLog) : nodeLog[n].mesh /\ nodeLog[n].epoch = e})

\* Total of the disposal passes recorded in nodeLog: one pair <<n, c>> per
\* pass c over node n.
TotalDisposals ==
    Cardinality(UNION {{<<n, c>> : c \in 1..nodeLog[n].disposals} : n \in 1..Len(nodeLog)})

\* Position of statement x in the cleanup log, 0 when it did not run.
LogIndex(x) ==
    IF \E j \in 1..Len(cleanupLog) : cleanupLog[j] = x
    THEN CHOOSE j \in 1..Len(cleanupLog) : cleanupLog[j] = x
    ELSE 0

\* C1: after every completed structure-type switch the scene's children are
\* exactly the two lights followed by the nodes the builder of the current
\* type produces, all of them created by the latest switch.
C1_SceneIsLightsPlusCurrent ==
    (sceneRef = "scene" /\ builtType # "unbuilt") =>
        LET fresh == IF builtType = "dna" THEN FreshDna
                     ELSE IF builtType = "organoid" THEN FreshOrganoid
                     ELSE FreshOther
        IN  /\ Len(children) = Len(fresh)
            /\ \A j \in 1..Len(children) :
                  /\ children[j].kind = fresh[j].kind
                  /\ children[j].role = fresh[j].role
                  /\ children[j].epoch = switchCount

C1_Witness ==
    /\ sceneRef = "scene"
    /\ switchCount >= 3
    /\ builtType = "organoid"
    /\ \E n \in 1..Len(nodeLog) :
          nodeLog[n].mesh /\ nodeLog[n].epoch < switchCount /\ nodeLog[n].disposals > 0

\* C2: while mounted, every geometry and material no longer referenced by a
\* node of the scene (i.e. owned by removed content nodes) has received exactly
\* one dispose() call.
C2_EachResourceDisposedOnce ==
    (phase = "mounted" /\ sceneRef = "scene") =>
        LET referenced == Referenced(children)
        IN  \A r \in 1..Len(disposeCount) :
                r \notin referenced => disposeCount[r] = 1

\* C3: after a completed switch, the node disposals so far number the content
\* nodes allocated by all switches but the last: each superseded content node
\* was disposed exactly once, each node of the last switch not at all; and in
\* every state no node has been disposed twice.
C3_NodeDisposalAccounting ==
    /\ \A n \in 1..Len(nodeLog) : nodeLog[n].disposals <= 1
    /\ (phase = "mounted" /\ ~pendingEffect /\ sceneRef = "scene") =>
          /\ \A n \in 1..Len(nodeLog) :
                nodeLog[n].mesh =>
                    nodeLog[n].disposals = IF nodeLog[n].epoch < switchCount THEN 1 ELSE 0
          /\ TotalDisposals
                = Cardinality({n \in 1..Len(nodeLog) :
                                 nodeLog[n].mesh /\ nodeLog[n].epoch < switchCount})

C3_Witness ==
    /\ phase = "mounted" /\ ~pendingEffect /\ sceneRef = "scene"
    /\ switchCount >= 3
    /\ TotalDisposals >= 3 * numSegments + 3 + numCells + 2
    /\ \E j \in 1..Len(children) : children[j].kind = "Mesh"

\* C4: every geometry and material that is live (allocated, never disposed)
\* is referenced by a node currently in the scene, so the live resources
\* never exceed those of one structure however many switches have run.
C4_NoLeakedResources ==
    LET referenced == Referenced(children)
    IN  \A r \in 1..Len(disposeCount) :
            disposeCount[r] = 0 => r \in referenced

C4_Witness ==
    /\ switchCount >= 3
    /\ \E r \in 1..Len(disposeCount) : disposeCount[r] = 0
    /\ Cardinality({r \in 1..Len(disposeCount) : disposeCount[r] > 0})
          >= 2 * (2 * numSegments + 5)

\* C5: no renderer.render call draws a mesh whose geometry or material has
\* been disposed.
C5_NeverRenderDisposed ==
    lastRender.disposedMeshes = 0

C5_Witness ==
    /\ renderCalls >= 2
    /\ switchCount >= 2
    /\ lastRender.nodes = 3 * numSegments + 3 + 2
    /\ \E r \in 1..Len(disposeCount) : disposeCount[r] > 0
    /\ phase = "unmounted"

\* C6: once the cleanup has called cancelAnimationFrame no callback is
\* scheduled and no frame renders for as long as the viewer stays unmounted,
\* a repeated call included.
C6_StopCancelsLoop ==
    [][phase' = "unmounted" =>
          /\ pending' = {}
          /\ (phase = "unmounted" => renderCalls' = renderCalls)]_vars

C6_Witness ==
    /\ phase = "unmounted"
    /\ cleanupCalls = 2
    /\ renderCalls >= 3
    /\ pending = {}

\* C7: after the unmount cleanup no callback is scheduled, the renderer and
\* the controls have been disposed, and every geometry and material ever
\* allocated has been disposed.
C7_TeardownLeavesNothing ==
    phase = "unmounted" =>
        /\ pending = {}
        /\ hasCleanup => (rendererDisposed >= 1 /\ controlsDisposed >= 1)
        /\ \A r \in 1..Len(disposeCount) : disposeCount[r] >= 1

C7_Witness ==
    /\ phase = "unmounted"
    /\ cleanupCalls = 1
    /\ switchCount >= 2
    /\ Len(disposeCount) >= 2 * numSegments + 5 + 6
    /\ rendererSize = [w |-> 0, h |-> 600]

\* C8: the cleanup stops the loop first, then disposes the scene content, and
\* only then disposes the renderer.
C8_TeardownOrder ==
    LogIndex("scene.traverse") > 0 =>
        /\ LogIndex("cancelAnimationFrame") < LogIndex("scene.traverse")
        /\ LogIndex("scene.traverse") < LogIndex("renderer.dispose")

\* C9: a second run of the cleanup closure raises no error and changes nothing.
C9_TeardownIdempotent ==
    [][(cleanupCalls >= 1 /\ cleanupCalls' = cleanupCalls + 1) =>
          /\ error' = "none"
          /\ UNCHANGED <<sceneVars, loopVars, viewVars>>]_vars

\* C10: a resize observed with a zero width or height, or with the current
\* dimensions, leaves the camera aspect, the projection and the renderer size
\* as they were.
C10_ResizeIgnoresDegenerate ==
    [][(resizeListener /\ \E w \in ResizeWidths, h \in ResizeHeights :
            /\ WindowResize(w, h)
            /\ w <= 0 \/ h <= 0 \/ (w = rendererSize.w /\ h = rendererSize.h)) =>
          UNCHANGED <<cameraAspect, projectionAspect, rendererSize>>]_vars

\* C11: a resize with positive dimensions (w, h), whatever the size before,
\* leaves the camera aspect equal to w/h (a ratio n/d with n*h = d*w), the
\* projection computed from that aspect and the renderer size equal to (w, h).
C11_ResizeSetsAspectAndSize ==
    [][\A w \in ResizeWidths, h \in ResizeHeights :
          (resizeListener /\ w > 0 /\ h > 0 /\ WindowResize(w, h)) =>
              /\ cameraAspect'.kind = "ratio"
              /\ cameraAspect'.n * h = cameraAspect'.d * w
              /\ projectionAspect' = cameraAspect'
              /\ rendererSize' = [w |-> w, h |-> h]]_vars

\* A size no mount starts with (Init draws from Widths x Heights): the
\* listener set it, replacing the size the viewer was mounted with.
C11_Witness ==
    /\ resizeListener
    /\ mountCount = 1
    /\ rendererSize = [w |-> 400, h |-> 300]
    /\ cameraAspect = [kind |-> "ratio", n |-> 4, d |-> 3]
    /\ projectionAspect = cameraAspect

\* C12: the helix build (numSegments = 30 in the code) leaves exactly
\* 3 * numSegments + 3 content nodes in the scene: 2 * (numSegments + 1)
\* backbone cylinders, numSegments base pairs and 1 core; 93 in all.
C12_HelixNodeCount ==
    (sceneRef = "scene" /\ builtType = "dna") =>
        /\ Cardinality(ContentNodes(children)) = 3 * numSegments + 3
        /\ CountRole(children, "backbone") = 2 * (numSegments + 1)
        /\ CountRole(children, "basePair") = numSegments
        /\ CountRole(children, "core") = 1
        /\ numSegments = 30 => Cardinality(ContentNodes(children)) = 93

C12_Witness ==
    /\ sceneRef = "scene"
    /\ builtType = "dna"
    /\ switchCount = 1
    /\ CountRole(children, "backbone") = 2 * (numSegments + 1)
    /\ CountRole(children, "basePair") = numSegments

\* C13: the organoid build (50 cells in the code) leaves exactly
\* numCells + 2 content nodes in the scene: one core sphere, one outer sphere
\* and numCells cell spheres; 52 in all.
C13_OrganoidNodeCount ==
    (sceneRef = "scene" /\ builtType = "organoid") =>
        /\ Cardinality(ContentNodes(children)) = numCells + 2
        /\ CountRole(children, "core") = 1
        /\ CountRole(children, "outerLayer") = 1
        /\ CountRole(children, "cell") = numCells
        /\ numCells = 50 => Cardinality(ContentNodes(children)) = 52

C13_Witness ==
    /\ sceneRef = "scene"
    /\ builtType = "organoid"
    /\ switchCount = 1
    /\ CountRole(children, "cell") = numCells
    /\ Len(children) = numCells + 4

\* C14: a 'dna' switch applied to a scene that a 'dna' switch built leaves
\* the same number of nodes and of lights as the first one did, with no node
\* kept from before (every child is new, ids distinct), every node of the
\* first build disposed, and no undisposed resource left outside the scene.
C14_DnaSwitchIdempotent ==
    [][(sceneRef = "scene" /\ builtType = "dna"
            /\ \E seed \in Seeds : SetStructureType("dna", seed)) =>
          /\ Len(children') = Len(children)
          /\ Cardinality(ContentNodes(children')) = Cardinality(ContentNodes(children))
          /\ Len(children') - Cardinality(ContentNodes(children'))
                = Len(children) - Cardinality(ContentNodes(children))
          /\ \A j \in 1..Len(children') :
                /\ children'[j].epoch = switchCount'
                /\ \A k \in 1..Len(children') : children'[k].id = children'[j].id => k = j
          /\ \A j \in ContentNodes(children) : nodeLog'[children[j].id].disposals = 1
          /\ \A r \in 1..Len(disposeCount') :
                disposeCount'[r] = 0 => r \in Referenced(children')]_vars

\* Two 'dna' switches in a row within one mount: the nodes of the switch
\* before the last number a helix and have been disposed.
C14_Witness ==
    /\ sceneRef = "scene"
    /\ builtType = "dna"
    /\ mountCount = 1
    /\ switchCount = 2
    /\ Len(children) = 3 * numSegments + 5
    /\ Cardinality({n \in 1..Len(nodeLog) :
                       /\ nodeLog[n].mesh
                       /\ nodeLog[n].epoch = switchCount - 1
                       /\ nodeLog[n].disposals = 1}) = 3 * numSegments + 3

\* C15: whatever was built before (an organoid after a first helix, in
\* particular), a scene built for 'dna' has the structure of a fresh 'dna'
\* build: the same nodes in the same order with the same roles, the same
\* sharing of geometries and materials, no organoid node, and every helix
\* node at the coordinates it has in a first build.
C15_RoundTripReproducesHelix ==
    (sceneRef = "scene" /\ builtType = "dna") =>
        /\ Len(children) = Len(FreshDna)
        /\ CountRole(children, "cell") = 0
        /\ CountRole(children, "outerLayer") = 0
        /\ \A j \in 1..Len(FreshDna) :
              /\ children[j].kind = FreshDna[j].kind
              /\ children[j].role = FreshDna[j].role
              /\ children[j].kind = "Mesh" =>
                    /\ children[j].position = FreshDna[j].position
                    /\ children[j].geometry - FreshDna[j].geometry
                          = Len(disposeCount) - (2 * numSegments + 5)
                    /\ children[j].material - FreshDna[j].material
                          = Len(disposeCount) - (2 * numSegments + 5)

\* dna, organoid, dna within one mount: the first switch created a helix,
\* the second an organoid, the third the helix now in the scene.
C15_Witness ==
    /\ sceneRef = "scene"
    /\ builtType = "dna"
    /\ mountCount = 1
    /\ switchCount = 3
    /\ MeshesOfEpoch(1) = 3 * numSegments + 3
    /\ MeshesOfEpoch(2) = numCells + 2
    /\ MeshesOfEpoch(3) = 3 * numSegments + 3
    /\ children[3].position = Cylindrical(radius, 0, -((height * numSegments) \div 2))

\* C16: two organoid builds with the same parameters (the build takes none
\* but the type; no seed or random source can be passed in) place their
\* cells identically: cell for cell, the same distance r from the origin,
\* which identical coordinates imply.
C16_OrganoidPlacementDeterministic ==
    [][(sceneRef = "scene" /\ builtType = "organoid" /\ builtType' = "organoid"
            /\ switchCount' = switchCount + 1) =>
          \A j \in ContentNodes(children) :
              children'[j].position.r = children[j].position.r]_vars

\* C17: a switch to a type that is neither 'dna' nor 'organoid' removes and
\* disposes every node of the previous structure, leaves the two lights as
\* the only children of the scene, and raises no error: the viewer stays
\* mounted with its loop scheduled.
C17_UnknownTypeIsNoContent ==
    [][(sceneRef = "scene" /\ \E seed \in Seeds : SetStructureType("other", seed)) =>
          /\ Len(children') = 2
          /\ children'[1].kind = "AmbientLight"
          /\ children'[2].kind = "DirectionalLight"
          /\ \A j \in 1..Len(children) :
                /\ \A k \in 1..Len(children') : children'[k].id # children[j].id
                /\ children[j].kind = "Mesh" =>
                      /\ nodeLog'[children[j].id].disposals = 1
                      /\ disposeCount'[children[j].geometry] >= 1
                      /\ disposeCount'[children[j].material] >= 1
          /\ error' = "none"
          /\ phase' = "mounted"
          /\ pending' = pending]_vars

\* An unknown type after a helix, within one mount.
C17_Witness ==
    /\ sceneRef = "scene"
    /\ builtType = "other"
    /\ phase = "mounted"
    /\ mountCount = 1
    /\ switchCount = 2
    /\ MeshesOfEpoch(1) = 3 * numSegments + 3
    /\ Len(children) = 2
    /\ error = "none"

\* C18: a run of the mount effect that finds no mount element
\* (mountRef.current is null) fails with SurfaceUnavailableError instead of
\* returning silently.
C18_MountFailsWithoutSurface ==
    [][(~surfaceHandle /\ mountCount' = mountCount + 1) =>
          error' = "SurfaceUnavailableError"]_vars

\* C20: a resize event changes nothing but the element size, the camera
\* aspect, the projection and the renderer size: the scene's content nodes
\* and lights stay as they are, and the pending frame callback is neither
\* cancelled nor replaced nor kept from firing (what enables it is untouched).
C20_ResizeIsSideChannel ==
    [][(\E w \in Widths, h \in Heights : WindowResize(w, h)) =>
          /\ UNCHANGED <<sceneRef, children, builtType, nodeLog, disposeCount>>
          /\ UNCHANGED <<pending, animationFrameIdRef, nextFrameId, renderCalls,
                         lastRender>>
          /\ UNCHANGED <<phase, pendingEffect, rendererDisposed, controlsDisposed,
                         canvasAttached, resizeListener>>]_vars

\* The listener has resized a viewer that shows a helix (the first mount
\* starts with a positive width): the callback requested at mount is still
\* the pending one.
C20_Witness ==
    /\ phase = "mounted"
    /\ mountCount = 1
    /\ resizeListener
    /\ rendererSize = [w |-> 0, h |-> 600]
    /\ builtType = "dna"
    /\ Len(children) = 3 * numSegments + 5
    /\ pending = {firstFrameId}
    /\ animationFrameIdRef = firstFrameId

\* C19: once the mount effect has started the loop, exactly one callback is
\* pending for as long as the viewer is mounted; every callback that fires
\* renders the scene as it is and leaves a new callback pending; and once
\* the effects of the mounting commit have run, while the viewer stays
\* mounted every pending callback does fire: the loop goes on, one rendered
\* frame per callback, until the viewer is unmounted (or the MaxFrames ids
\* of the model are used up).
C19_LoopKeepsRendering ==
    /\ []((phase = "mounted" /\ hasCleanup) => pending = {animationFrameIdRef})
    /\ [][(\E id \in pending : Frame(id)) =>
            /\ renderCalls' = renderCalls + 1
            /\ nextFrameId' = nextFrameId + 1
            /\ lastRender'.nodes = Len(children)
            /\ animationFrameIdRef' \notin pending
            /\ pending' = {animationFrameIdRef'}]_vars
    /\ (phase = "mounted" /\ ~pendingEffect /\ pending # {})
          ~> (nextFrameId > MaxFrames \/ phase = "unmounted")

\* The loop has run to the last frame id of the model within one mount.
C19_Witness ==
    /\ phase = "mounted"
    /\ mountCount = 1
    /\ renderCalls = MaxFrames
    /\ nextFrameId = MaxFrames + 1
    /\ pending = {MaxFrames}
    /\ lastRender.nodes = 3 * numSegments + 5

\* C21: a run of the [type] effect leaves the render loop and the viewport
\* as they were: the pending callback and its stored id, the frame and
\* render counters, the camera aspect and projection, the renderer size, the
\* disposal state of renderer and controls, the canvas and the resize
\* listener are the same before and after the switch.
C21_SwitchLeavesLoopAndViewport ==
    [][switchCount' = switchCount + 1 =>
          /\ UNCHANGED <<pending, animationFrameIdRef, nextFrameId, firstFrameId,
                         renderCalls, lastRender>>
          /\ UNCHANGED <<clientW, clientH, cameraAspect, projectionAspect,
                         rendererSize, rendererDisposed, controlsDisposed,
                         canvasAttached, resizeListener>>
          /\ UNCHANGED <<phase, sceneRef, mountCount>>]_vars

\* Two switches within one mount, the callback requested at mount still
\* the pending one.
C21_Witness ==
    /\ phase = "mounted"
    /\ mountCount = 1
    /\ switchCount = 2
    /\ builtType = "organoid"
    /\ MeshesOfEpoch(1) = 3 * numSegments + 3
    /\ pending = {firstFrameId}
    /\ animationFrameIdRef = firstFrameId
    /\ rendererSize = [w |-> 800, h |-> 600]
    /\ controlsDisposed = 0

\* C22: while the viewer is mounted, whatever switches and resizes have
\* happened, the scene holds exactly one ambient light and exactly one
\* directional light, and nothing else besides meshes.
C22_ExactlyOneLightingRig ==
    (phase = "mounted" /\ sceneRef = "scene") =>
        /\ CountKind(children, "AmbientLight") = 1
        /\ CountKind(children, "DirectionalLight") = 1
        /\ CountKind(children, "Mesh") = Len(children) - 2

\* Three switches and a resize into a second mount: the lights are those of
\* the latest switch.
C22_Witness ==
    /\ phase = "mounted"
    /\ sceneRef = "scene"
    /\ mountCount = 2
    /\ switchCount = 3
    /\ rendererSize = [w |-> 0, h |-> 600]
    /\ Len(children) = numCells + 4
    /\ children[1].kind = "AmbientLight" /\ children[1].epoch = 3
    /\ children[2].kind = "DirectionalLight" /\ children[2].epoch = 3

\* C23: every mesh the clearing loop has removed from the scene had received
\* dispose() on its geometry and on its material when scene.remove was
\* called: none was removed with a resource still unreleased.
C23_DisposeBeforeRemove ==
    \A n \in 1..Len(nodeLog) :
        (nodeLog[n].mesh /\ nodeLog[n].removal # -1) => nodeLog[n].removal = 2

\* A helix and an organoid have been cleared, mesh by mesh.
C23_Witness ==
    /\ switchCount = 3
    /\ Cardinality({n \in 1..Len(nodeLog) : nodeLog[n].mesh /\ nodeLog[n].removal = 2})
          = 3 * numSegments + 3 + numCells + 2
    /\ \E n \in 1..Len(nodeLog) : ~nodeLog[n].mesh /\ nodeLog[n].removal = 0

\* C24: every scene a renderer.render call has drawn held the two lights and
\* either nothing else or one whole structure (all nodes of the helix, or
\* all nodes of the organoid), never part of one; and the frame the mount
\* effect renders itself, before the first build, drew the lights alone.
C24_FramesRenderWholeScenes ==
    /\ renderCalls > 0 =>
          /\ lastRender.lights = 2
          /\ lastRender.nodes \in {2, 3 * numSegments + 3 + 2, numCells + 2 + 2}
    /\ (phase = "mounted" /\ pendingEffect /\ hasCleanup) =>
          /\ renderCalls > 0
          /\ lastRender.nodes = 2

\* A frame drew a whole organoid after two switches and a resize.
C24_Witness ==
    /\ phase = "mounted"
    /\ mountCount = 1
    /\ switchCount = 2
    /\ renderCalls = 3
    /\ rendererSize = [w |-> 0, h |-> 600]
    /\ lastRender.nodes = numCells + 4
    /\ lastRender.lights = 2

\* C25: in a helix scene, for every step i in 0..numSegments both backbone
\* cylinders are at distance radius from the axis, half a turn apart, at
\* z = i * (height / numSegments) - height / 2, so that the backbone runs
\* from -height/2 to +height/2; for every i < numSegments the base pair is
\* on the axis at z = (i + 0.5) * (height / numSegments) - height / 2; the
\* core is on the axis at z = -height/2.  (z is kept in units of
\* 1 / numSegments, the equations are multiplied by 2 * numSegments.)
C25_HelixPlacement ==
    (sceneRef = "scene" /\ builtType = "dna") =>
        /\ \A i \in 0..numSegments :
              LET c1 == children[3 + 3 * i]
                  c2 == children[4 + 3 * i]
              IN  /\ c1.role = "backbone" /\ c2.role = "backbone"
                  /\ c1.position.rho = radius /\ c2.position.rho = radius
                  /\ c2.position.ang = c1.position.ang + numSegments
                  /\ 2 * c1.position.z = 2 * i * height - height * numSegments
                  /\ 2 * c2.position.z = 2 * i * height - height * numSegments
        /\ \A i \in 0..(numSegments - 1) :
              LET bp == children[5 + 3 * i]
              IN  /\ bp.role = "basePair"
                  /\ bp.position.rho = 0
                  /\ 2 * bp.position.z = (2 * i + 1) * height - height * numSegments
        /\ LET core == children[Len(children)]
           IN  /\ core.role = "core"
               /\ core.position.rho = 0
               /\ 2 * core.position.z = -(height * numSegments)
        /\ 2 * children[3].position.z = -(height * numSegments)
        /\ 2 * children[3 + 3 * numSegments].position.z = height * numSegments

\* A helix built as the second structure of a mount: bottom and top of the
\* backbone at -height/2 and +height/2.
C25_Witness ==
    /\ sceneRef = "scene"
    /\ builtType = "dna"
    /\ switchCount = 2
    /\ MeshesOfEpoch(1) = numCells + 2
    /\ children[3].position.z = -((height * numSegments) \div 2)
    /\ children[Len(children) - 1].position.z = (height * numSegments) \div 2

\* C26: in every state, across mounts, frames, unmounts and re-mounts, at
\* most one frame callback is pending, and when one is pending
\* animationFrameIdRef holds its id: no two render loops run side by side.
C26_AtMostOnePendingCallback ==
    /\ Cardinality(pending) <= 1
    /\ \A id \in pending : id = animationFrameIdRef

\* Mount, one frame, unmount, re-mount: the third request is the only one
\* pending.
C26_Witness ==
    /\ phase = "mounted"
    /\ mountCount = 2
    /\ hasCleanup
    /\ renderCalls = 3
    /\ firstFrameId = 3
    /\ animationFrameIdRef = 3
    /\ pending = {3}

\* C27: a window resize that occurs while the viewer is unmounted changes
\* neither the camera aspect nor the projection nor the size of the
\* (disposed) renderer: the listener registered at mount is gone.
C27_NoResizeAfterUnmount ==
    [][(phase = "unmounted"
            /\ \E w \in ResizeWidths, h \in ResizeHeights : WindowResize(w, h)) =>
          /\ ~resizeListener
          /\ UNCHANGED <<cameraAspect, projectionAspect, rendererSize,
                         rendererDisposed, controlsDisposed>>]_vars

\* The element has been resized after the unmount: the renderer keeps the
\* size it was mounted with.
C27_Witness ==
    /\ phase = "unmounted"
    /\ hasCleanup
    /\ rendererDisposed = 1
    /\ clientW = 400 /\ clientH = 300
    /\ rendererSize = [w |-> 800, h |-> 600]
    /\ cameraAspect = [kind |-> "ratio", n |-> 4, d |-> 3]

\* ---------------------------------------------------------------- C28
\* C28: analyzeCrispr always resets the loading state.  Whenever
\* isLoadingCrispr is true it is eventually false again with crisprResults
\* no longer the "Analyzing sequence..." text, whichever way the request
\* ends (response with text, non-OK response, empty or malformed response,
\* network or parse error); the step that resets it replaces that text.
\* With an empty or whitespace-only input the call sends no request and
\* leaves isLoadingCrispr false, and isLoadingCrispr only ever becomes true
\* together with a request being sent.
C28_Blank == \A k \in 1..Len(crisprInputSequence) : crisprInputSequence[k] \in Whitespace

C29_UniqueIds ==
    \A i, j \in 1..Len(dnaElements) : i # j => dnaElements[i].id # dnaElements[j].id
====
